---- MODULE Spec2Model ----
(***************************************************************************)
(* Tic-tac-toe: the GameBoard component (components/GameBoard.tsx) and the *)
(* GameScreen match controller (app/(tabs)/index.tsx) with the AsyncStorage *)
(* keys gameSettings, roundsData and leaderboard.                          *)
(***************************************************************************)
EXTENDS Integers, Sequences, FiniteSets, TLC

VARIABLES
  board,              \* GameBoard: board[r][c], r,c in 0..gridSize-1
  gameOver,           \* GameBoard: gameOver
  winningLine,        \* GameBoard: winningLine, a sequence of <<row, col>>
  gbGameStarted,      \* GameBoard: gameStarted
  currentPlayerState, \* GameBoard: currentPlayerState
  lastResult,         \* return value of the most recent checkWinner call
  gameStarted,        \* GameScreen: gameStarted
  score,              \* GameScreen: score {player1, player2, ties}
  timer,              \* GameScreen: timer (seconds)
  timerActive,        \* GameScreen: timerActive
  currentRound,       \* GameScreen: currentRound
  showMatchComplete,  \* GameScreen: showMatchComplete
  matchWinner,        \* GameScreen: matchWinner
  gameSettings,       \* GameScreen: gameSettings
  previousSettings,   \* GameScreen: previousSettings
  focusClosure,       \* what the memoised focus callback captured
  prompt,             \* the open settings-changed Alert (its newSettings) or NoSettings
  timeouts,           \* pending setTimeout(..., 800) closures, oldest first
  storedSettings,     \* AsyncStorage key gameSettings
  roundsData,         \* AsyncStorage key roundsData
  leaderboard,        \* AsyncStorage key leaderboard
  intervals,          \* GameScreen: setInterval tick sources created and not cleared
  focused,            \* the game tab is the focused tab
  settings,           \* SettingsScreen: settings
  panelSettings,      \* TicTacToeScreen: gameSettings, the settings prop of the panel
  pendingSaves        \* SettingsScreen: saveSettings calls whose setItem has not settled

gbVars == <<board, gameOver, winningLine, gbGameStarted, currentPlayerState, lastResult>>
screenVars == <<gameStarted, score, timer, timerActive, currentRound, showMatchComplete,
                matchWinner, gameSettings, previousSettings, focusClosure, prompt, timeouts>>
storeVars == <<storedSettings, roundsData, leaderboard>>
uiVars == <<focused, settings, panelSettings, pendingSaves>>
vars == <<board, gameOver, winningLine, gbGameStarted, currentPlayerState, lastResult,
          gameStarted, score, timer, timerActive, currentRound, showMatchComplete,
          matchWinner, gameSettings, previousSettings, focusClosure, prompt, timeouts,
          storedSettings, roundsData, leaderboard, intervals, focused, settings,
          panelSettings, pendingSaves>>

(***************************************************************************)
(* Values                                                                  *)
(***************************************************************************)
\* JavaScript null / undefined / "no value"
Null == "null"

\* null where a settings object is expected (nothing stored, no previous
\* settings, no open prompt)
NoSettings == [absent |-> TRUE]

\* the marks GameBoard can place
Marks == {"X", "O"}

\* JavaScript truthiness of an optional string
Truthy(v) == v # Null

\* a || b on optional strings
OrElse(a, b) == IF Truthy(a) THEN a ELSE b

Max(a, b) == IF a >= b THEN a ELSE b

Min(a, b) == IF a <= b THEN a ELSE b

(***************************************************************************)
(* Bounds                                                                  *)
(***************************************************************************)
\* largest grid explored by the win-detector specification
MaxGrid == 4

\* occupied cells of a board of the win-detector specification whose grid is
\* larger than the smallest one (boards of the smallest grid are enumerated
\* exhaustively); larger boards are put together from whole runs
MaxMarks == 6

\* largest value of the elapsed-seconds counter
MaxTimer == 1

\* setTimeout callbacks pending at the same time: a round is not finished
\* while this many callbacks of earlier rounds are still pending
MaxPending == 1

\* leaderboard entries after which no further match is started
MaxEntries == 1

\* saveSettings calls of the settings screen pending at the same time
MaxSaves == 2

\* round records under roundsData beyond which no further round is finished
MaxRecords == 3

(***************************************************************************)
(* Board helpers                                                           *)
(***************************************************************************)
\* Array(gridSize).fill(null).map(() => Array(gridSize).fill(null))
EmptyBoard(n) == [r \in 0..(n - 1) |-> [c \in 0..(n - 1) |-> Null]]

BoardSize(b) == Cardinality(DOMAIN b)

Cells(n) == (0..(n - 1)) \X (0..(n - 1))

At(b, cell) == b[cell[1]][cell[2]]

CountOf(b, s) == Cardinality({cell \in Cells(BoardSize(b)) : At(b, cell) = s})

Occupied(b) == {cell \in Cells(BoardSize(b)) : At(b, cell) # Null}

\* variant: only the first row is inspected
isBoardFull_FirstRow(b) == \A c \in 0..(BoardSize(b) - 1) : b[0][c] # Null

\* boardState.every(row => row.every(cell => cell !== null))
isBoardFull(b) == \A cell \in Cells(BoardSize(b)) : At(b, cell) # Null

(***************************************************************************)
(* checkWinner                                                             *)
(***************************************************************************)
\* number of values of a loop variable running over 0..(n - k)
Span(n, k) == Max(0, n - k + 1)

\* the k cells visited by the inner loop (index 0..k-1) from a starting cell
RunCells(start, d, k) ==
  [i \in 1..k |-> <<start[1] + (i - 1) * d[1], start[2] + (i - 1) * d[2]>>]

\* rows: for i in 0..n-1, for j in 0..n-k
RowLines(n, k) ==
  [t \in 1..(n * Span(n, k)) |->
     RunCells(<<(t - 1) \div Span(n, k), (t - 1) % Span(n, k)>>, <<0, 1>>, k)]

\* columns: for i in 0..n-k, for j in 0..n-1
ColLines(n, k) ==
  [t \in 1..(Span(n, k) * n) |->
     RunCells(<<(t - 1) \div n, (t - 1) % n>>, <<1, 0>>, k)]

\* diagonals, top-left to bottom-right: for i in 0..n-k, for j in 0..n-k
DiagLines(n, k) ==
  [t \in 1..(Span(n, k) * Span(n, k)) |->
     RunCells(<<(t - 1) \div Span(n, k), (t - 1) % Span(n, k)>>, <<1, 1>>, k)]

\* variant: the column loop stops one short, at k instead of k-1
AntiLines_Short(n, k) ==
  [t \in 1..(Span(n, k) * (Span(n, k) - 1)) |->
     RunCells(<<(t - 1) \div (Span(n, k) - 1), (n - 1) - ((t - 1) % (Span(n, k) - 1))>>,
              <<1, -1>>, k)]

\* diagonals, top-right to bottom-left: for i in 0..n-k, for j from n-1 down to k-1
AntiLines(n, k) ==
  [t \in 1..(Span(n, k) * Span(n, k)) |->
     RunCells(<<(t - 1) \div Span(n, k), (n - 1) - ((t - 1) % Span(n, k))>>, <<1, -1>>, k)]

\* variant: the column loops run before the row loops
ScanOrder_ColsFirst(n, k) ==
  ColLines(n, k) \o RowLines(n, k) \o DiagLines(n, k) \o AntiLines(n, k)

\* every candidate line in the order the four loop nests visit them
ScanOrder(n, k) == RowLines(n, k) \o ColLines(n, k) \o DiagLines(n, k) \o AntiLines(n, k)

\* variant: the inner loop stops after the second cell
allSame_FirstTwo(b, line) ==
  /\ Truthy(At(b, line[1]))
  /\ At(b, line[2]) = At(b, line[1])

\* firstCell is truthy and the inner loop finds no differing cell
allSame(b, line) ==
  /\ Truthy(At(b, line[1]))
  /\ \A i \in 1..Len(line) : At(b, line[i]) = At(b, line[1])

\* the result of checkWinner: the value returned and, on a win, the line
\* passed to setWinningLine (setLine tells whether setWinningLine was called)
checkWinner(boardState, gridSize, winLength) ==
  LET order == ScanOrder(gridSize, winLength)
      hits == {t \in 1..Len(order) : allSame(boardState, order[t])}
  IN IF hits # {}
     THEN LET first == CHOOSE t \in hits : \A u \in hits : t <= u
          IN [winner |-> At(boardState, order[first][1]), setLine |-> TRUE,
              line |-> order[first]]
     ELSE IF isBoardFull(boardState)
          THEN [winner |-> "tie", setLine |-> FALSE, line |-> <<>>]
          ELSE [winner |-> Null, setLine |-> FALSE, line |-> <<>>]

\* no checkWinner call has been made yet
NoResult == [winner |-> "none", setLine |-> FALSE, line |-> <<>>]

(***************************************************************************)
(* Program constants                                                       *)
(***************************************************************************)
\* gridSizeOptions = [3, 4, 5, 6]: the smallest selectable grid
MinGrid == 3

\* winLengthOptions start at 3
MinWin == 3

\* roundsOptions = [1, 3, 5, 7, 10]
roundsOptions == {1, 3, 5, 7, 10}

\* const topEntries = leaderboard.slice(0, 10)
TopEntries == 10

\* useState<GameSettingsType>({...}) of GameScreen
DefaultSettings ==
  [gridSize |-> 3, winLength |-> 3, currentPlayer |-> "X", maxRounds |-> 5,
   enableTimer |-> TRUE, player1Symbol |-> "X", player2Symbol |-> "O"]

ZeroScore == [player1 |-> 0, player2 |-> 0, ties |-> 0]

(***************************************************************************)
(* The state as one record, so that a handler and the effects of the       *)
(* renders it causes compose as functions                                  *)
(***************************************************************************)
Cur ==
  [board |-> board, gameOver |-> gameOver, winningLine |-> winningLine,
   gbGameStarted |-> gbGameStarted, currentPlayerState |-> currentPlayerState,
   lastResult |-> lastResult, gameStarted |-> gameStarted, score |-> score,
   timer |-> timer, timerActive |-> timerActive, currentRound |-> currentRound,
   showMatchComplete |-> showMatchComplete, matchWinner |-> matchWinner,
   gameSettings |-> gameSettings, previousSettings |-> previousSettings,
   focusClosure |-> focusClosure, prompt |-> prompt, timeouts |-> timeouts,
   storedSettings |-> storedSettings, roundsData |-> roundsData,
   leaderboard |-> leaderboard, intervals |-> intervals]

Commit(s) ==
  /\ board' = s.board
  /\ gameOver' = s.gameOver
  /\ winningLine' = s.winningLine
  /\ gbGameStarted' = s.gbGameStarted
  /\ currentPlayerState' = s.currentPlayerState
  /\ lastResult' = s.lastResult
  /\ gameStarted' = s.gameStarted
  /\ score' = s.score
  /\ timer' = s.timer
  /\ timerActive' = s.timerActive
  /\ currentRound' = s.currentRound
  /\ showMatchComplete' = s.showMatchComplete
  /\ matchWinner' = s.matchWinner
  /\ gameSettings' = s.gameSettings
  /\ previousSettings' = s.previousSettings
  /\ focusClosure' = s.focusClosure
  /\ prompt' = s.prompt
  /\ timeouts' = s.timeouts
  /\ storedSettings' = s.storedSettings
  /\ roundsData' = s.roundsData
  /\ leaderboard' = s.leaderboard
  /\ intervals' = s.intervals

(***************************************************************************)
(* AsyncStorage writers of GameScreen                                      *)
(***************************************************************************)
RECURSIVE Gcd(_, _)
Gcd(a, b) == IF b = 0 THEN a ELSE Gcd(b, a % b)

\* totalTime / winnerRounds.length as a reduced fraction; 0 when there is no round
Average(total, n) ==
  IF n = 0 \/ total = 0 THEN [num |-> 0, den |-> 1]
  ELSE [num |-> total \div Gcd(total, n), den |-> n \div Gcd(total, n)]

\* a.time - b.time <= 0
TimeLeq(a, b) == a.num * b.den <= b.num * a.den

RECURSIVE SumTimes(_)
SumTimes(rounds) ==
  IF rounds = <<>> THEN 0 ELSE Head(rounds).time + SumTimes(Tail(rounds))

\* variant: the new entry is pushed and the list is not sorted
InsertSorted_Unsorted(lb, e) == Append(lb, e)

\* leaderboard.push(e); leaderboard.sort((a, b) => a.time - b.time): the sort
\* is stable and the list it is applied to is already sorted, so the new entry
\* goes behind every entry whose time is not greater
InsertSorted(lb, e) ==
  LET before == SelectSeq(lb, LAMBDA x : TimeLeq(x.time, e.time))
      after == SelectSeq(lb, LAMBDA x : ~TimeLeq(x.time, e.time))
  IN before \o <<e>> \o after

\* saveRoundToLeaderboard(player, time) in the closure of a render whose
\* gameSettings and currentRound are cs and cr
saveRoundToLeaderboard(s, player, time, cs, cr) ==
  LET isPlayer1 == player = OrElse(cs.player1Symbol, "X")
      newRoundData == [player |-> IF isPlayer1 THEN "Player 1" ELSE "Player 2",
                       time |-> time, round |-> cr, symbol |-> player]
  IN [s EXCEPT !.roundsData = Append(@, newRoundData)]

\* saveMatchToLeaderboard() in the closure of a render whose gameSettings,
\* score and currentRound are cs, sc and cr
saveMatchToLeaderboard(s, cs, sc, cr) ==
  IF ~cs.enableTimer THEN s
  ELSE
    LET player1Symbol == OrElse(cs.player1Symbol, "X")
        player2Symbol == OrElse(cs.player2Symbol, "O")
        winner == IF sc.player1 > sc.player2 THEN player1Symbol
                  ELSE IF sc.player2 > sc.player1 THEN player2Symbol ELSE Null
    IN IF ~Truthy(winner) THEN s
       ELSE
         LET isPlayer1 == winner = player1Symbol
             winnerRounds == SelectSeq(s.roundsData,
                               LAMBDA r : r.symbol = winner /\ r.round <= cr)
             avgTime == Average(SumTimes(winnerRounds), Len(winnerRounds))
             newEntry == [player |-> IF isPlayer1 THEN "Player 1" ELSE "Player 2",
                          gridSize |-> cs.gridSize, winLength |-> cs.winLength,
                          time |-> avgTime, symbol |-> winner]
             sorted == InsertSorted(s.leaderboard, newEntry)
         IN [s EXCEPT !.leaderboard = SubSeq(sorted, 1, Min(Len(sorted), TopEntries)),
                      !.roundsData = <<>>]

(***************************************************************************)
(* GameScreen handlers                                                     *)
(***************************************************************************)
\* variant: Math.floor(maxRounds / 2)
roundsNeededToWin_Floor(maxRounds) == maxRounds \div 2

\* Math.ceil(maxRounds / 2)
roundsNeededToWin(maxRounds) == (maxRounds + 1) \div 2

\* handleGameStart
handleGameStart(s) ==
  [s EXCEPT !.gameStarted = TRUE,
            !.timerActive = IF s.gameSettings.enableTimer THEN TRUE ELSE @]

\* the closure handed to setTimeout by handleGameWon / handleGameTie: the
\* score, currentRound and gameSettings of the render the handler belongs to,
\* and the updatedScore the handler computed
TimeoutClosure(kind, s, updatedScore) ==
  [kind |-> kind, updatedScore |-> updatedScore, score |-> s.score,
   currentRound |-> s.currentRound, settings |-> s.gameSettings]

\* handleGameWon(winner), up to the setTimeout call and setTimerActive(false)
handleGameWon(s, winner) ==
  LET updatedScore ==
        IF winner = OrElse(s.gameSettings.player1Symbol, "X")
        THEN [s.score EXCEPT !.player1 = @ + 1]
        ELSE [s.score EXCEPT !.player2 = @ + 1]
      s1 == [s EXCEPT !.score = updatedScore]
      s2 == IF s.gameSettings.enableTimer
            THEN saveRoundToLeaderboard(s1, winner, s.timer, s.gameSettings, s.currentRound)
            ELSE s1
  IN [s2 EXCEPT !.timeouts = Append(@, TimeoutClosure("won", s, updatedScore)),
                !.timerActive = FALSE]

\* handleGameTie(), up to the setTimeout call
handleGameTie(s) ==
  LET updatedScore == [s.score EXCEPT !.ties = @ + 1]
  IN [s EXCEPT !.score = updatedScore,
               !.timerActive = FALSE,
               !.timeouts = Append(@, TimeoutClosure("tie", s, updatedScore))]

\* variant: player 1 is named on equal scores
WinnerByScore_Geq(sc, cs) ==
  IF sc.player1 >= sc.player2 THEN OrElse(cs.player1Symbol, "X")
  ELSE OrElse(cs.player2Symbol, "O")

\* the winner by score of the final branch of both timeout callbacks
WinnerByScore(sc, cs) ==
  IF sc.player1 > sc.player2 THEN OrElse(cs.player1Symbol, "X")
  ELSE IF sc.player2 > sc.player1 THEN OrElse(cs.player2Symbol, "O")
  ELSE Null

\* the last branch shared by both callbacks: next round, or end of the match
AdvanceOrEnd(s, c) ==
  IF ~(c.currentRound >= c.settings.maxRounds)
  THEN [s EXCEPT !.currentRound = @ + 1]
  ELSE saveMatchToLeaderboard(
         [s EXCEPT !.showMatchComplete = TRUE,
                   !.matchWinner = WinnerByScore(c.updatedScore, c.settings)],
         c.settings, c.score, c.currentRound)

\* the callback of handleGameWon's setTimeout
WonTimeout(s, c) ==
  LET needed == roundsNeededToWin(c.settings.maxRounds)
  IN IF c.updatedScore.player1 >= needed
     THEN saveMatchToLeaderboard(
            [s EXCEPT !.showMatchComplete = TRUE,
                      !.matchWinner = OrElse(c.settings.player1Symbol, "X")],
            c.settings, c.score, c.currentRound)
     ELSE IF c.updatedScore.player2 >= needed
     THEN saveMatchToLeaderboard(
            [s EXCEPT !.showMatchComplete = TRUE,
                      !.matchWinner = OrElse(c.settings.player2Symbol, "O")],
            c.settings, c.score, c.currentRound)
     ELSE AdvanceOrEnd(s, c)

\* the callback of handleGameTie's setTimeout
TieTimeout(s, c) == AdvanceOrEnd(s, c)

\* variant: the score and the round counter are reset whatever the argument
resetGame_Always(s, resetMatch) ==
  [s EXCEPT !.gameStarted = FALSE, !.timerActive = FALSE, !.timer = 0,
            !.score = ZeroScore, !.currentRound = 1,
            !.showMatchComplete = FALSE, !.matchWinner = Null]

\* resetGame(resetMatch)
resetGame(s, resetMatch) ==
  LET s1 == [s EXCEPT !.gameStarted = FALSE, !.timerActive = FALSE, !.timer = 0]
  IN IF resetMatch
     THEN [s1 EXCEPT !.score = ZeroScore, !.currentRound = 1,
                     !.showMatchComplete = FALSE, !.matchWinner = Null]
     ELSE s1

\* resetMatch
resetMatch(s) ==
  [s EXCEPT !.score = ZeroScore, !.currentRound = 1, !.showMatchComplete = FALSE,
            !.matchWinner = Null, !.timer = 0, !.gameStarted = FALSE,
            !.timerActive = FALSE,
            !.gameSettings = [@ EXCEPT !.currentPlayer =
                                OrElse(s.gameSettings.player1Symbol, "X")],
            !.roundsData = <<>>]

\* loadGameSettings, called through the memoised focus callback, whose closure
\* holds the previousSettings and gameStarted of the render that created it
loadGameSettings(s) ==
  IF s.storedSettings = NoSettings THEN s
  ELSE
    LET savedSettings == s.storedSettings
        prev == s.focusClosure.previousSettings
    IN IF /\ prev # NoSettings
          /\ s.focusClosure.gameStarted
          /\ \/ savedSettings.gridSize # prev.gridSize
             \/ savedSettings.winLength # prev.winLength
             \/ savedSettings.maxRounds # prev.maxRounds
       THEN [s EXCEPT !.prompt = savedSettings]
       ELSE [s EXCEPT !.gameSettings = savedSettings,
                      !.previousSettings = savedSettings]

(***************************************************************************)
(* GameBoard                                                               *)
(***************************************************************************)
\* resetGameBoard
resetGameBoard(s) ==
  [s EXCEPT !.board = EmptyBoard(s.gameSettings.gridSize), !.gameOver = FALSE,
            !.winningLine = <<>>, !.gbGameStarted = FALSE,
            !.currentPlayerState = "X", !.lastResult = NoResult]

\* onChangeTurn={(player) => setGameSettings(prev => ({...prev, currentPlayer: player}))}
onChangeTurn(s, player) ==
  [s EXCEPT !.gameSettings = [@ EXCEPT !.currentPlayer = player]]

\* const nextPlayer = currentPlayerState === 'X' ? 'O' : 'X'
nextPlayerOf(p) == IF p = "X" THEN "O" ELSE "X"

\* variant: only the gameOver test
tapIgnored_GameOverOnly(s, row, col) == s.gameOver

\* if (gameOver || board[row][col]) return
tapIgnored(s, row, col) == s.gameOver \/ Truthy(s.board[row][col])

\* handleCellTap(row, col)
handleCellTap(s, row, col) ==
  IF tapIgnored(s, row, col) THEN s
  ELSE
    LET s1 == IF ~s.gbGameStarted
              THEN handleGameStart([s EXCEPT !.gbGameStarted = TRUE])
              ELSE s
        newBoard == [s.board EXCEPT ![row][col] = s.currentPlayerState]
        winner == checkWinner(newBoard, s.gameSettings.gridSize, s.gameSettings.winLength)
        s2 == [s1 EXCEPT !.board = newBoard, !.lastResult = winner,
                         !.winningLine = IF winner.setLine THEN winner.line ELSE @]
    IN IF Truthy(winner.winner)
       THEN [(IF winner.winner = "tie" THEN handleGameTie(s2)
              ELSE handleGameWon(s2, winner.winner))
             EXCEPT !.gameOver = TRUE]
       ELSE onChangeTurn([s2 EXCEPT !.currentPlayerState = nextPlayerOf(s.currentPlayerState)],
                         nextPlayerOf(s.currentPlayerState))

\* resetGame of GameBoard (the Play Again button): resetGameBoard(), onGameReset()
PlayAgainHandler(s) == resetGame(resetGameBoard(s), FALSE)

(***************************************************************************)
(* Effects run by the render that follows a state change                   *)
(***************************************************************************)
\* GameBoard, mounted before and after: the currentPlayer effect, then the
\* reset effect on [gridSize, winLength]
GameBoardEffects(old, s) ==
  LET s1 == IF /\ s.gameSettings.currentPlayer # old.gameSettings.currentPlayer
               /\ Truthy(s.gameSettings.currentPlayer)
            THEN [s EXCEPT !.currentPlayerState = s.gameSettings.currentPlayer]
            ELSE s
  IN IF \/ s.gameSettings.gridSize # old.gameSettings.gridSize
        \/ s.gameSettings.winLength # old.gameSettings.winLength
     THEN resetGameBoard(s1)
     ELSE s1

\* GameScreen: the match-complete effect on [currentRound, score, gameSettings,
\* showMatchComplete]
MatchCompleteEffect(s) ==
  IF s.currentRound > s.gameSettings.maxRounds /\ ~s.showMatchComplete
  THEN saveMatchToLeaderboard(
         [s EXCEPT !.showMatchComplete = TRUE,
                   !.matchWinner = WinnerByScore(s.score, s.gameSettings)],
         s.gameSettings, s.score, s.currentRound)
  ELSE s

\* GameBoard is rendered only while !showMatchComplete; mounting it runs its
\* initial state and both effects, which leave the state of resetGameBoard
MountEffects(s) == IF s.showMatchComplete THEN resetGameBoard(s) ELSE s

\* variant: the effect returns no cleanup function
TimerEffect_NoCleanup(old, s) ==
  IF s.timerActive = old.timerActive \/ ~s.timerActive THEN s
  ELSE [s EXCEPT !.intervals = @ + 1]

\* GameScreen: the timer effect on [timerActive]. When timerActive changes the
\* cleanup returned by the previous run (clearInterval, returned when
\* timerActive was true) runs first, then the body: setInterval when
\* timerActive, else clearInterval(intervalId) of the interval already cleared
TimerEffect(old, s) ==
  IF s.timerActive = old.timerActive THEN s
  ELSE LET cleaned == IF old.timerActive THEN [s EXCEPT !.intervals = @ - 1] ELSE s
       IN IF s.timerActive THEN [cleaned EXCEPT !.intervals = @ + 1] ELSE cleaned

\* one render after the state old has become s
Render(old, s) ==
  TimerEffect(old, MountEffects(MatchCompleteEffect(
    IF old.showMatchComplete THEN resetGameBoard(s) ELSE GameBoardEffects(old, s))))

\* the renders that follow a handler: the effects of the first render, and, when
\* gameStarted changed, the re-created focus callback, its loadGameSettings call
\* and the render that follows it
AfterHandler(old, s) ==
  LET r1 == Render(old, s)
  IN IF r1.gameStarted # old.gameStarted
     THEN LET fresh == [r1 EXCEPT !.focusClosure =
                          [previousSettings |-> r1.previousSettings,
                           gameStarted |-> r1.gameStarted]]
          IN Render(fresh, loadGameSettings(fresh))
     ELSE r1

(***************************************************************************)
(* SettingsScreen (app/(tabs)/settings.tsx) and the in-game GameSettings   *)
(* panel of TicTacToeScreen; both write the AsyncStorage key gameSettings  *)
(***************************************************************************)
\* what the settings screen writes under gameSettings: no currentPlayer field
SettingsScreenRecord(n, k, rounds, tmr, p1, p2) ==
  [gridSize |-> n, winLength |-> k, currentPlayer |-> Null, maxRounds |-> rounds,
   enableTimer |-> tmr, player1Symbol |-> p1, player2Symbol |-> p2]

\* what the in-game settings panel writes when nothing was stored before: a
\* copy of the screen's own settings, currentPlayer included
PanelRecord(tmr) == [DefaultSettings EXCEPT !.enableTimer = tmr]

\* gridSizeOptions of the settings screen
gridSizeOptions == {3, 4, 5, 6}

\* gridSizeOptions of the panel
panelGridSizeOptions == {3, 4, 5}

\* winLengthOptions of the panel
winLengthOptions == {3, 4, 5}

\* SYMBOL_OPTIONS: the two defaults and one of the emoji
SymbolOptions == {"X", "O", "S"}

\* useState of SettingsScreen
DefaultScreenSettings == SettingsScreenRecord(3, 3, 5, TRUE, "X", "O")

\* loadSettings of SettingsScreen, run once when the screen mounts
loadSettings(st, stored) ==
  IF stored = NoSettings THEN st
  ELSE [stored EXCEPT !.player1Symbol = OrElse(@, "X"), !.player2Symbol = OrElse(@, "O")]

\* the win lengths the settings screen offers:
\* Array.from({length: gridSize}, (_, i) => i + 3).filter(n => n <= gridSize)
offeredWinLengths(st) == {n \in 3..(st.gridSize + 2) : n <= st.gridSize}

\* handleGridSizeChange of SettingsScreen: the record handed to saveSettings
handleGridSizeChange(st, size) ==
  [st EXCEPT !.gridSize = size, !.winLength = Min(st.winLength, size)]

\* handleWinLengthChange of SettingsScreen
handleWinLengthChange(st, length) == [st EXCEPT !.winLength = length]

\* variant: no duplicate test
player1SymbolRejected_Never(st, symbol) == FALSE

\* handleRoundsChange of SettingsScreen
handleRoundsChange(st, rounds) == [st EXCEPT !.maxRounds = rounds]

\* the duplicate test of handlePlayer1SymbolChange
player1SymbolRejected(st, symbol) == symbol = st.player2Symbol

\* the duplicate test of handlePlayer2SymbolChange
player2SymbolRejected(st, symbol) == symbol = st.player1Symbol

\* handlePlayer1SymbolChange: the records handed to saveSettings (none when
\* the symbol is rejected)
handlePlayer1SymbolChange(st, symbol) ==
  IF player1SymbolRejected(st, symbol) THEN {}
  ELSE {[st EXCEPT !.player1Symbol = symbol]}

\* handlePlayer2SymbolChange
handlePlayer2SymbolChange(st, symbol) ==
  IF player2SymbolRejected(st, symbol) THEN {}
  ELSE {[st EXCEPT !.player2Symbol = symbol]}

\* isCriticalChange of the panel's saveSettings
isCriticalChange(st, newSettings) ==
  \/ "gridSize" \in DOMAIN newSettings /\ newSettings.gridSize # st.gridSize
  \/ "winLength" \in DOMAIN newSettings /\ newSettings.winLength # st.winLength

\* what the panel's saveSettings writes: { ...savedSettings, ...newSettings },
\* savedSettings being the stored record or, with nothing stored, the prop
panelStored(stored, st, newSettings) ==
  newSettings @@ (IF stored = NoSettings THEN st ELSE stored)

\* the prop after the panel's saveSettings: onUpdateSettings(newSettings) is
\* called for non-critical changes only
panelUpdated(st, newSettings) ==
  IF isCriticalChange(st, newSettings) THEN st ELSE newSettings @@ st

\* handleGridSizeChange of the panel: the partial record handed to saveSettings
panelGridSizeChange(st, size) ==
  [gridSize |-> size, winLength |-> Min(st.winLength, size)]

\* the win lengths the panel offers: winLengthOptions.filter(len => len <= settings.gridSize)
panelOfferedWinLengths(st) == {len \in winLengthOptions : len <= st.gridSize}

(***************************************************************************)
(* Initial states                                                          *)
(***************************************************************************)
\* GameScreen and GameBoard as constructed, before the first loadGameSettings
Pristine(stored) ==
  [board |-> EmptyBoard(DefaultSettings.gridSize), gameOver |-> FALSE,
   winningLine |-> <<>>, gbGameStarted |-> FALSE, currentPlayerState |-> "X",
   lastResult |-> NoResult, gameStarted |-> FALSE, score |-> ZeroScore,
   timer |-> 0, timerActive |-> FALSE, currentRound |-> 1,
   showMatchComplete |-> FALSE, matchWinner |-> Null,
   gameSettings |-> DefaultSettings, previousSettings |-> NoSettings,
   focusClosure |-> [previousSettings |-> NoSettings, gameStarted |-> FALSE],
   prompt |-> NoSettings, timeouts |-> <<>>, storedSettings |-> stored,
   roundsData |-> <<>>, leaderboard |-> <<>>, intervals |-> 0]

\* the state once the screen is mounted and the focus effect has loaded the
\* stored settings for the first time
Mounted(stored) == Render(Pristine(stored), loadGameSettings(Pristine(stored)))

\* the game screen's state and the stores
InitGame(s) ==
  /\ board = s.board
  /\ gameOver = s.gameOver
  /\ winningLine = s.winningLine
  /\ gbGameStarted = s.gbGameStarted
  /\ currentPlayerState = s.currentPlayerState
  /\ lastResult = s.lastResult
  /\ gameStarted = s.gameStarted
  /\ score = s.score
  /\ timer = s.timer
  /\ timerActive = s.timerActive
  /\ currentRound = s.currentRound
  /\ showMatchComplete = s.showMatchComplete
  /\ matchWinner = s.matchWinner
  /\ gameSettings = s.gameSettings
  /\ previousSettings = s.previousSettings
  /\ focusClosure = s.focusClosure
  /\ prompt = s.prompt
  /\ timeouts = s.timeouts
  /\ storedSettings = s.storedSettings
  /\ roundsData = s.roundsData
  /\ leaderboard = s.leaderboard
  /\ intervals = s.intervals

InitFrom(s) ==
  /\ InitGame(s)
  /\ focused = TRUE
  /\ settings = loadSettings(DefaultScreenSettings, s.storedSettings)
  /\ panelSettings = DefaultSettings
  /\ pendingSaves = {}

(***************************************************************************)
(* Win detector alone: boards built mark by mark, evaluated after each     *)
(***************************************************************************)
InitCW ==
  \E n \in MinGrid..MaxGrid : \E k \in MinWin..n :
    InitFrom([Pristine(NoSettings) EXCEPT
                !.gameSettings = [DefaultSettings EXCEPT !.gridSize = n, !.winLength = k],
                !.board = EmptyBoard(n)])

\* the four direction vectors
Directions == {<<0, 1>>, <<1, 0>>, <<1, 1>>, <<1, -1>>}

InBounds(cell, n) == cell[1] \in 0..(n - 1) /\ cell[2] \in 0..(n - 1)

\* every run of k consecutive in-bounds cells along one of the four directions
Runs(n, k) ==
  {line \in {RunCells(start, d, k) : start \in Cells(n), d \in Directions} :
     \A i \in 1..k : InBounds(line[i], n)}

\* the runs of the board whose cells all hold the same mark
WinningRuns(b, n, k) ==
  {line \in Runs(n, k) : \E m \in Marks : \A i \in 1..k : At(b, line[i]) = m}

\* set one empty cell of the smallest grid to a mark and run checkWinner on
\* the result
Evaluate(cell, mark) ==
  /\ gameSettings.gridSize = MinGrid
  /\ At(board, cell) = Null
  /\ board' = [board EXCEPT ![cell[1]][cell[2]] = mark]
  /\ lastResult' = checkWinner(board', gameSettings.gridSize, gameSettings.winLength)
  /\ UNCHANGED <<gameOver, winningLine, gbGameStarted, currentPlayerState>>
  /\ UNCHANGED screenVars
  /\ UNCHANGED storeVars
  /\ UNCHANGED <<intervals, focused, settings, panelSettings, pendingSaves>>

\* b with every cell of line set to mark
Painted(b, line, mark) ==
  [r \in DOMAIN b |-> [c \in DOMAIN b |->
     IF \E i \in 1..Len(line) : line[i] = <<r, c>> THEN mark ELSE b[r][c]]]

\* on a larger grid: set the cells of one empty run to a mark and run
\* checkWinner on the result
EvaluateRun(line, mark) ==
  /\ gameSettings.gridSize > MinGrid
  /\ \A i \in 1..Len(line) : At(board, line[i]) = Null
  /\ Cardinality(Occupied(board)) + Len(line) <= MaxMarks
  /\ board' = Painted(board, line, mark)
  /\ lastResult' = checkWinner(board', gameSettings.gridSize, gameSettings.winLength)
  /\ UNCHANGED <<gameOver, winningLine, gbGameStarted, currentPlayerState>>
  /\ UNCHANGED screenVars
  /\ UNCHANGED storeVars
  /\ UNCHANGED <<intervals, focused, settings, panelSettings, pendingSaves>>

NextCW ==
  \/ \E cell \in Cells(gameSettings.gridSize) : \E mark \in Marks : Evaluate(cell, mark)
  \/ \E line \in Runs(gameSettings.gridSize, gameSettings.winLength) :
       \E mark \in Marks : EvaluateRun(line, mark)

SpecCW == InitCW /\ [][NextCW]_vars

(***************************************************************************)
(* The game: events of GameScreen with its GameBoard                       *)
(***************************************************************************)
\* a tap on a cell of the mounted board
CellTap(cell) ==
  /\ ~showMatchComplete
  /\ prompt = NoSettings
  /\ Len(handleCellTap(Cur, cell[1], cell[2]).timeouts) <= MaxPending
  /\ Len(handleCellTap(Cur, cell[1], cell[2]).roundsData) <= MaxRecords
  /\ focused
  /\ Commit(AfterHandler(Cur, handleCellTap(Cur, cell[1], cell[2])))
  /\ UNCHANGED uiVars

\* the Play Again button of the game-over overlay
PlayAgain ==
  /\ ~showMatchComplete
  /\ prompt = NoSettings
  /\ gameOver
  /\ focused
  /\ Commit(AfterHandler(Cur, PlayAgainHandler(Cur)))
  /\ UNCHANGED uiVars

\* the oldest pending setTimeout callback runs
TimeoutFires ==
  /\ timeouts # <<>>
  /\ LET c == Head(timeouts)
         s == [Cur EXCEPT !.timeouts = Tail(@)]
     IN Commit(AfterHandler(Cur, IF c.kind = "won" THEN WonTimeout(s, c)
                                 ELSE TieTimeout(s, c)))
  /\ UNCHANGED uiVars

\* the New Match button of the match-complete view
ResetMatch ==
  /\ showMatchComplete
  /\ prompt = NoSettings
  /\ Len(leaderboard) < MaxEntries
  /\ focused
  /\ Commit(AfterHandler(Cur, resetMatch(Cur)))
  /\ UNCHANGED uiVars

\* one tick of the interval created while timerActive
Tick ==
  /\ intervals > 0
  /\ timer < MaxTimer
  /\ timer' = timer + 1
  /\ UNCHANGED <<gameStarted, score, timerActive, currentRound, showMatchComplete,
                 matchWinner, gameSettings, previousSettings, focusClosure, prompt,
                 timeouts, intervals>>
  /\ UNCHANGED gbVars
  /\ UNCHANGED storeVars
  /\ UNCHANGED uiVars

\* the tab is left and focused again: the focus callback runs loadGameSettings
Refocus ==
  /\ prompt = NoSettings
  /\ focused
  /\ Commit(Render(Cur, loadGameSettings(Cur)))
  /\ UNCHANGED uiVars

\* the move sequences played in the match specification (3x3): a win of the
\* first mover, a win of the second mover, and a full board without a run
PlayBook ==
  { << <<0, 0>>, <<1, 1>>, <<0, 1>>, <<1, 2>>, <<0, 2>> >>,
    << <<0, 0>>, <<1, 1>>, <<0, 1>>, <<0, 2>>, <<2, 1>>, <<2, 0>> >>,
    << <<0, 0>>, <<0, 1>>, <<0, 2>>, <<1, 1>>, <<1, 0>>, <<1, 2>>, <<2, 1>>, <<2, 0>>,
       <<2, 2>> >> }

\* the cells that continue a move sequence of the play book on board b
ScriptedTaps(b) ==
  LET n == Cardinality(Occupied(b))
  IN {sc[n + 1] : sc \in {q \in PlayBook :
                            n < Len(q) /\ Occupied(b) = {q[i] : i \in 1..n}}}

\* the pairs of player symbols the match specification starts from: the
\* defaults, the defaults exchanged, and an emoji for player 1
SymbolPairs == {<<"X", "O">>, <<"O", "X">>, <<"S", "O">>}

\* the match lengths played with the timer on
TimedRounds == {1, 3}

\* the stored settings the match specification starts from: every match
\* length with the timer off, the short matches with the timer on and each
\* pair of symbols, and the record written by the in-game panel
StoredChoices ==
  {SettingsScreenRecord(MinGrid, MinWin, r, FALSE, "X", "O") : r \in roundsOptions}
    \cup {SettingsScreenRecord(MinGrid, MinWin, r, TRUE, p[1], p[2]) :
            r \in TimedRounds, p \in SymbolPairs}
    \cup {PanelRecord(FALSE)}

Init == \E stored \in StoredChoices : InitFrom(Mounted(stored))

Next ==
  \/ \E cell \in ScriptedTaps(board) \cup {<<0, 0>>} : CellTap(cell)
  \/ PlayAgain
  \/ TimeoutFires
  \/ ResetMatch
  \/ Tick
  \/ Refocus

Spec == Init /\ [][Next]_vars

(***************************************************************************)
(* Events of the settings screen and of the in-game panel                  *)
(***************************************************************************)
\* the game's own state is left alone
GameUnchanged ==
  /\ UNCHANGED gbVars
  /\ UNCHANGED screenVars
  /\ UNCHANGED <<roundsData, leaderboard, intervals>>

\* saveSettings(newSettings) of SettingsScreen up to its await: the setItem
\* call is pending
saveSettings(newSettings) ==
  /\ ~focused
  /\ Cardinality(pendingSaves \cup {newSettings}) <= MaxSaves
  /\ pendingSaves' = pendingSaves \cup {newSettings}
  /\ UNCHANGED <<focused, settings, panelSettings, storedSettings>>
  /\ GameUnchanged

\* the grid sizes chosen in the specifications
GridChoices == {size \in gridSizeOptions : size <= MaxGrid}

ScreenGridSize(size) == saveSettings(handleGridSizeChange(settings, size))

ScreenWinLength(length) == saveSettings(handleWinLengthChange(settings, length))

ScreenPlayer1Symbol(symbol) ==
  \E newSettings \in handlePlayer1SymbolChange(settings, symbol) : saveSettings(newSettings)

ScreenPlayer2Symbol(symbol) ==
  \E newSettings \in handlePlayer2SymbolChange(settings, symbol) : saveSettings(newSettings)

\* a pending setItem resolves: the record is stored, then setSettings(newSettings)
SaveSettles(newSettings) ==
  /\ newSettings \in pendingSaves
  /\ pendingSaves' = pendingSaves \ {newSettings}
  /\ storedSettings' = newSettings
  /\ settings' = newSettings
  /\ UNCHANGED <<focused, panelSettings>>
  /\ GameUnchanged

\* a pending setItem rejects: the catch block logs and shows an Alert
SaveFails(newSettings) ==
  /\ newSettings \in pendingSaves
  /\ pendingSaves' = pendingSaves \ {newSettings}
  /\ UNCHANGED <<focused, settings, panelSettings, storedSettings>>
  /\ GameUnchanged

\* saveSettings(newSettings) of SettingsScreen run to its end, the setItem
\* resolving before any other event
saveSettingsDone(newSettings) ==
  /\ ~focused
  /\ pendingSaves = {}
  /\ storedSettings' = newSettings
  /\ settings' = newSettings
  /\ UNCHANGED <<focused, panelSettings, pendingSaves>>
  /\ GameUnchanged

ScreenGridSizeDone(size) == saveSettingsDone(handleGridSizeChange(settings, size))

ScreenRoundsDone(rounds) == saveSettingsDone(handleRoundsChange(settings, rounds))

\* saveSettings(newSettings) of the panel, its getItem and setItem succeeding
panelSave(newSettings) ==
  /\ ~focused
  /\ storedSettings' = panelStored(storedSettings, panelSettings, newSettings)
  /\ panelSettings' = panelUpdated(panelSettings, newSettings)
  /\ UNCHANGED <<focused, settings, pendingSaves>>
  /\ GameUnchanged

PanelGridSize(size) == panelSave(panelGridSizeChange(panelSettings, size))

PanelWinLength(length) == panelSave([winLength |-> length])

\* TicTacToeScreen gains focus with no round started: its loadGameSettings
\* applies the stored record
TicTacToeFocus ==
  /\ ~focused
  /\ storedSettings # NoSettings
  /\ panelSettings' = storedSettings
  /\ UNCHANGED <<focused, settings, pendingSaves, storedSettings>>
  /\ GameUnchanged

\* the settings specification: the user is on the settings tab or on the
\* TicTacToeScreen tab
InitSettings ==
  \E stored \in {NoSettings, SettingsScreenRecord(MinGrid, MinWin, 5, TRUE, "X", "O")} :
    /\ InitGame(Mounted(stored))
    /\ focused = FALSE
    /\ settings = loadSettings(DefaultScreenSettings, stored)
    /\ panelSettings = DefaultSettings
    /\ pendingSaves = {}

NextSettings ==
  \/ \E size \in GridChoices : ScreenGridSize(size)
  \/ \E length \in offeredWinLengths(settings) : ScreenWinLength(length)
  \/ \E symbol \in SymbolOptions : ScreenPlayer1Symbol(symbol)
  \/ \E symbol \in SymbolOptions : ScreenPlayer2Symbol(symbol)
  \/ \E newSettings \in pendingSaves : SaveSettles(newSettings)
  \/ \E newSettings \in pendingSaves : SaveFails(newSettings)
  \/ \E size \in panelGridSizeOptions \cap GridChoices : PanelGridSize(size)
  \/ \E length \in panelOfferedWinLengths(panelSettings) : PanelWinLength(length)
  \/ TicTacToeFocus

SpecSettings == InitSettings /\ [][NextSettings]_vars

(***************************************************************************)
(* The game screen losing and gaining focus while the settings screen      *)
(* changes the stored settings                                             *)
(***************************************************************************)
\* promptResetGame(newSettings), button 'Reset Game'
promptResetGameReset(s) ==
  resetGame([s EXCEPT !.gameSettings = s.prompt, !.previousSettings = s.prompt,
                      !.prompt = NoSettings], TRUE)

\* promptResetGame(newSettings), button 'Keep Playing'
promptResetGameKeep(s) == [s EXCEPT !.prompt = NoSettings]

\* another tab is selected: the focus callback's cleanup runs
Blur ==
  /\ focused
  /\ prompt = NoSettings
  /\ focused' = FALSE
  /\ UNCHANGED <<settings, panelSettings, pendingSaves, storedSettings>>
  /\ GameUnchanged

\* the game tab is selected again: the focus callback runs loadGameSettings
Focus ==
  /\ ~focused
  /\ focused' = TRUE
  /\ Commit(Render(Cur, loadGameSettings(Cur)))
  /\ UNCHANGED <<settings, panelSettings, pendingSaves>>

KeepPlaying ==
  /\ prompt # NoSettings
  /\ Commit(AfterHandler(Cur, promptResetGameKeep(Cur)))
  /\ UNCHANGED uiVars

ResetGameFromPrompt ==
  /\ prompt # NoSettings
  /\ Len(leaderboard) < MaxEntries
  /\ Commit(AfterHandler(Cur, promptResetGameReset(Cur)))
  /\ UNCHANGED uiVars

\* the move sequence played in the focus specification: a win of the first
\* mover
FocusPlayBook == {q \in PlayBook : Len(q) = 5}

FocusTaps(b) ==
  LET n == Cardinality(Occupied(b))
  IN {sc[n + 1] : sc \in {q \in FocusPlayBook :
                            n < Len(q) /\ Occupied(b) = {q[i] : i \in 1..n}}}

\* the stored settings the focus specification starts from: none, and a short
\* timed match
FocusChoices == {NoSettings, SettingsScreenRecord(MinGrid, MinWin, 3, TRUE, "X", "O")}

InitFocus == \E stored \in FocusChoices : InitFrom(Mounted(stored))

NextFocus ==
  \/ \E cell \in FocusTaps(board) : CellTap(cell)
  \/ PlayAgain
  \/ TimeoutFires
  \/ Tick
  \/ Blur
  \/ Focus
  \/ KeepPlaying
  \/ ResetGameFromPrompt
  \/ \E size \in GridChoices : ScreenGridSizeDone(size)

SpecFocus == InitFocus /\ [][NextFocus]_vars

(***************************************************************************)
(* The game screen while the settings screen changes the match length      *)
(***************************************************************************)
\* the match lengths chosen on the settings screen
RoundChoices == {1, 3}

InitRounds == InitFrom(Mounted(SettingsScreenRecord(MinGrid, MinWin, 3, TRUE, "X", "O")))

NextRounds ==
  \/ \E cell \in FocusTaps(board) : CellTap(cell)
  \/ PlayAgain
  \/ TimeoutFires
  \/ ResetMatch
  \/ Tick
  \/ Blur
  \/ Focus
  \/ KeepPlaying
  \/ ResetGameFromPrompt
  \/ \E rounds \in RoundChoices : ScreenRoundsDone(rounds)

SpecRounds == InitRounds /\ [][NextRounds]_vars

(***************************************************************************)
(* The leaderboard store alone: round records are written, matches are     *)
(* finalized and the settings screen clears the data                       *)
(***************************************************************************)
\* saveRoundToLeaderboard(player 1's symbol, time)
RecordRound(time) ==
  /\ Len(roundsData) < MaxRecords
  /\ Commit(saveRoundToLeaderboard(Cur, gameSettings.player1Symbol, time, gameSettings,
                                   currentRound))
  /\ UNCHANGED uiVars

\* saveMatchToLeaderboard() of a render whose score has player 1 ahead
FinalizeMatch ==
  /\ Commit(saveMatchToLeaderboard(Cur, gameSettings, [ZeroScore EXCEPT !.player1 = 1],
                                   currentRound))
  /\ UNCHANGED uiVars

\* clearLeaderboardData of SettingsScreen
ClearLeaderboard ==
  /\ leaderboard' = <<>>
  /\ roundsData' = <<>>
  /\ UNCHANGED <<storedSettings, intervals>>
  /\ UNCHANGED gbVars
  /\ UNCHANGED screenVars
  /\ UNCHANGED uiVars

InitLB == InitFrom(Mounted(SettingsScreenRecord(MinGrid, MinWin, 1, TRUE, "X", "O")))

NextLB ==
  \/ \E time \in 0..MaxTimer : RecordRound(time)
  \/ FinalizeMatch
  \/ ClearLeaderboard

SpecLB == InitLB /\ [][NextLB]_vars

(***************************************************************************)
(* TicTacToeScreen (app/(tabs)/tictactoe.tsx) with its GameBoard and its   *)
(* settings panel. In the specification of this section the screen         *)
(* variables hold the state of TicTacToeScreen. Its handleGameStart,       *)
(* resetGame, resetMatch, loadGameSettings, saveRoundToLeaderboard,        *)
(* saveMatchToLeaderboard and timer effect have the text of GameScreen's   *)
(* and are modelled by the same operators.                                 *)
(***************************************************************************)
\* leaderboard entries beyond which TicTacToeScreen handles no further event
\* that writes one
MaxWrites == 2

\* handleGameWon(winner) of TicTacToeScreen
TicTacToeHandleGameWon(s, winner) ==
  LET newScore == IF winner = "X" THEN [s.score EXCEPT !.player1 = @ + 1]
                  ELSE IF winner = "O" THEN [s.score EXCEPT !.player2 = @ + 1]
                  ELSE s.score
      s1 == [s EXCEPT !.timerActive = FALSE, !.score = newScore]
      s2 == IF s.gameSettings.enableTimer
            THEN saveRoundToLeaderboard(s1, winner, s.timer, s.gameSettings, s.currentRound)
            ELSE s1
  IN [s2 EXCEPT !.currentRound = s.currentRound + 1]

\* handleGameTie() of TicTacToeScreen
TicTacToeHandleGameTie(s) ==
  [s EXCEPT !.timerActive = FALSE, !.score = [@ EXCEPT !.ties = @ + 1],
            !.currentRound = s.currentRound + 1]

\* handleCellTap(row, col) of the GameBoard rendered by TicTacToeScreen
TicTacToeHandleCellTap(s, row, col) ==
  IF tapIgnored(s, row, col) THEN s
  ELSE
    LET s1 == IF ~s.gbGameStarted
              THEN handleGameStart([s EXCEPT !.gbGameStarted = TRUE])
              ELSE s
        newBoard == [s.board EXCEPT ![row][col] = s.currentPlayerState]
        winner == checkWinner(newBoard, s.gameSettings.gridSize, s.gameSettings.winLength)
        s2 == [s1 EXCEPT !.board = newBoard, !.lastResult = winner,
                         !.winningLine = IF winner.setLine THEN winner.line ELSE @]
    IN IF Truthy(winner.winner)
       THEN [(IF winner.winner = "tie" THEN TicTacToeHandleGameTie(s2)
              ELSE TicTacToeHandleGameWon(s2, winner.winner))
             EXCEPT !.gameOver = TRUE]
       ELSE onChangeTurn([s2 EXCEPT !.currentPlayerState = nextPlayerOf(s.currentPlayerState)],
                         nextPlayerOf(s.currentPlayerState))

\* handleCellTap(row, col) reaches its onChangeTurn call, which hands a new
\* gameSettings object to setGameSettings
TapChangesTurn(s, row, col) ==
  /\ ~tapIgnored(s, row, col)
  /\ ~Truthy(checkWinner([s.board EXCEPT ![row][col] = s.currentPlayerState],
                         s.gameSettings.gridSize, s.gameSettings.winLength).winner)

\* the body of TicTacToeScreen's match-complete effect, saveMatchToLeaderboard
\* running to its end in the closure of the render the effect belongs to
TicTacToeMatchCompleteEffect(s) ==
  LET maxRounds == s.gameSettings.maxRounds
      player1Symbol == OrElse(s.gameSettings.player1Symbol, "X")
      player2Symbol == OrElse(s.gameSettings.player2Symbol, "O")
      finalized(w) == saveMatchToLeaderboard(
                        [s EXCEPT !.showMatchComplete = TRUE, !.matchWinner = w],
                        s.gameSettings, s.score, s.currentRound)
  IN IF ~(s.score.player1 > 0 \/ s.score.player2 > 0 \/ s.score.ties > 0) THEN s
     ELSE IF s.score.player1 >= roundsNeededToWin(maxRounds) THEN finalized(player1Symbol)
     ELSE IF s.score.player2 >= roundsNeededToWin(maxRounds) THEN finalized(player2Symbol)
     ELSE IF s.currentRound >= maxRounds
     THEN finalized(WinnerByScore(s.score, s.gameSettings))
     ELSE s

\* one render of TicTacToeScreen after the state old has become s; settingsSet
\* tells whether setGameSettings was handed a new object. The match-complete
\* effect depends on [currentRound, score, gameSettings]
TicTacToeRender(old, s, settingsSet) ==
  LET s1 == IF old.showMatchComplete THEN resetGameBoard(s) ELSE GameBoardEffects(old, s)
      s2 == IF settingsSet \/ s1.currentRound # old.currentRound \/ s1.score # old.score
            THEN TicTacToeMatchCompleteEffect(s1)
            ELSE s1
  IN TimerEffect(old, MountEffects(s2))

\* loadGameSettings reaches its setGameSettings(savedSettings) call
LoadApplies(s) ==
  s.storedSettings # NoSettings /\ loadGameSettings(s).prompt = s.prompt

\* the renders that follow a handler of TicTacToeScreen: the effects of the
\* first render, and, when gameStarted changed, the re-created focus callback,
\* its loadGameSettings call and the render that follows it
TicTacToeAfterHandler(old, s, settingsSet) ==
  LET r1 == TicTacToeRender(old, s, settingsSet)
  IN IF r1.gameStarted # old.gameStarted
     THEN LET fresh == [r1 EXCEPT !.focusClosure =
                          [previousSettings |-> r1.previousSettings,
                           gameStarted |-> r1.gameStarted]]
          IN TicTacToeRender(fresh, loadGameSettings(fresh), LoadApplies(fresh))
     ELSE r1

\* TicTacToeScreen once it is mounted and its focus effect has loaded the
\* stored settings for the first time
TicTacToeMounted(stored) ==
  TicTacToeRender(Pristine(stored), loadGameSettings(Pristine(stored)),
                  LoadApplies(Pristine(stored)))

\* handleToggleChange('enableTimer', value) of the panel: saveSettings stores
\* the merged record and calls onUpdateSettings, and the handler calls
\* onUpdateSettings itself; each call is followed by a render
panelToggleTimer(s, value) ==
  LET newSettings == [enableTimer |-> value]
      u1 == [s EXCEPT !.gameSettings = newSettings @@ s.gameSettings]
      r1 == TicTacToeAfterHandler(s, u1, TRUE)
      u2 == [r1 EXCEPT !.storedSettings = panelStored(s.storedSettings, s.gameSettings,
                                                       newSettings),
                       !.gameSettings = newSettings @@ r1.gameSettings]
  IN TicTacToeAfterHandler(r1, u2, TRUE)

\* a tap on a cell of the board mounted by TicTacToeScreen
TicTacToeCellTap(cell) ==
  /\ ~showMatchComplete
  /\ prompt = NoSettings
  /\ Len(TicTacToeHandleCellTap(Cur, cell[1], cell[2]).roundsData) <= MaxRecords
  /\ Commit(TicTacToeAfterHandler(Cur, TicTacToeHandleCellTap(Cur, cell[1], cell[2]),
                                  TapChangesTurn(Cur, cell[1], cell[2])))
  /\ UNCHANGED uiVars

\* the Play Again button of the board mounted by TicTacToeScreen
TicTacToePlayAgain ==
  /\ ~showMatchComplete
  /\ prompt = NoSettings
  /\ gameOver
  /\ Commit(TicTacToeAfterHandler(Cur, PlayAgainHandler(Cur), FALSE))
  /\ UNCHANGED uiVars

\* the New Match button of TicTacToeScreen
TicTacToeResetMatch ==
  /\ showMatchComplete
  /\ prompt = NoSettings
  /\ Len(leaderboard) < MaxEntries
  /\ Commit(TicTacToeAfterHandler(Cur, resetMatch(Cur), TRUE))
  /\ UNCHANGED uiVars

\* the tab of TicTacToeScreen is left and focused again
TicTacToeRefocus ==
  /\ prompt = NoSettings
  /\ Len(leaderboard) < MaxWrites
  /\ Commit(TicTacToeRender(Cur, loadGameSettings(Cur), LoadApplies(Cur)))
  /\ UNCHANGED uiVars

\* the Enable Timer switch of the panel, used while no round is under way
TicTacToePanelTimer ==
  /\ prompt = NoSettings
  /\ ~gbGameStarted
  /\ Len(leaderboard) < MaxWrites
  /\ Commit(panelToggleTimer(Cur, ~gameSettings.enableTimer))
  /\ UNCHANGED uiVars

\* the move sequences played on TicTacToeScreen: a win of the first mover and
\* a win of the second mover
TicTacToePlayBook == {q \in PlayBook : Len(q) < 9}

TicTacToeTaps(b) ==
  LET n == Cardinality(Occupied(b))
  IN {sc[n + 1] : sc \in {q \in TicTacToePlayBook :
                            n < Len(q) /\ Occupied(b) = {q[i] : i \in 1..n}}}

\* the stored settings TicTacToeScreen starts from: nothing, which leaves the
\* default of 5 rounds, and a timed match of 3 rounds
TicTacToeChoices == {NoSettings, SettingsScreenRecord(MinGrid, MinWin, 3, TRUE, "X", "O")}

InitTicTacToe == \E stored \in TicTacToeChoices : InitFrom(TicTacToeMounted(stored))

NextTicTacToe ==
  \/ \E cell \in TicTacToeTaps(board) : TicTacToeCellTap(cell)
  \/ TicTacToePlayAgain
  \/ TicTacToeResetMatch
  \/ Tick
  \/ TicTacToeRefocus
  \/ TicTacToePanelTimer

SpecTicTacToe == InitTicTacToe /\ [][NextTicTacToe]_vars

(***************************************************************************)
(* Properties of checkWinner (SpecCW)                                      *)
(***************************************************************************)
Evaluated == lastResult # NoResult

GridN == gameSettings.gridSize

WinK == gameSettings.winLength

\* C1: checkWinner returns a mark exactly when the board holds a run of
\* winLength equal marks along a row, a column or one of the two diagonals, and
\* the line it records is such a run: winLength cells, in bounds, consecutive
\* along one direction, all holding the returned mark.
C1_WinIffRun ==
  Evaluated =>
    /\ lastResult.winner \in Marks <=> WinningRuns(board, GridN, WinK) # {}
    /\ lastResult.winner \in Marks =>
         /\ lastResult.setLine
         /\ Len(lastResult.line) = WinK
         /\ lastResult.line \in Runs(GridN, WinK)
         /\ \A i \in 1..WinK : At(board, lastResult.line[i]) = lastResult.winner

\* a win along the down-left diagonal on a grid larger than the smallest one
C1_Witness ==
  /\ Evaluated
  /\ lastResult.winner \in Marks
  /\ GridN > MinGrid
  /\ lastResult.line[2] = <<lastResult.line[1][1] + 1, lastResult.line[1][2] - 1>>

\* C2: checkWinner returns 'tie' exactly when there is no winning run and no
\* empty cell, and null exactly when there is no winning run and some cell is
\* empty; a full board holding a winning run is a win, never a tie.
C2_TieIffFullNoRun ==
  Evaluated =>
    /\ lastResult.winner = "tie" <=>
         (WinningRuns(board, GridN, WinK) = {} /\ Occupied(board) = Cells(GridN))
    /\ lastResult.winner = Null <=>
         (WinningRuns(board, GridN, WinK) = {} /\ Occupied(board) # Cells(GridN))

\* a full board without a run, reported as a tie
C2_Witness ==
  /\ Evaluated
  /\ Occupied(board) = Cells(GridN)
  /\ lastResult.winner = "tie"

\* a full board that holds a run
C2_WitnessFullWin ==
  /\ Evaluated
  /\ Occupied(board) = Cells(GridN)
  /\ lastResult.winner \in Marks

\* position of a run's direction in the order (0,1), (1,0), (1,1), (1,-1)
DirRank(line) ==
  LET d == <<line[2][1] - line[1][1], line[2][2] - line[1][2]>>
  IN IF d = <<0, 1>> THEN 0 ELSE IF d = <<1, 0>> THEN 1 ELSE IF d = <<1, 1>> THEN 2 ELSE 3

\* a precedes b: earlier direction, or same direction and starting cell earlier
\* in row-major order
RowMajorBefore(a, b) ==
  \/ DirRank(a) < DirRank(b)
  \/ /\ DirRank(a) = DirRank(b)
     /\ \/ a[1][1] < b[1][1]
        \/ a[1][1] = b[1][1] /\ a[1][2] <= b[1][2]

\* as RowMajorBefore, but the starting cells of down-left diagonals are taken
\* right to left within a row
ScanBefore(a, b) ==
  \/ DirRank(a) < DirRank(b)
  \/ /\ DirRank(a) = DirRank(b)
     /\ \/ a[1][1] < b[1][1]
        \/ a[1][1] = b[1][1] /\ (IF DirRank(a) = 3 THEN a[1][2] >= b[1][2]
                                 ELSE a[1][2] <= b[1][2])

\* C3 (as stated): of several winning runs checkWinner reports the first in
\* direction order and, within a direction, in row-major order of the starting
\* cell (top row first, left to right).
C3_RowMajorFirst ==
  (Evaluated /\ lastResult.winner \in Marks) =>
    \A other \in WinningRuns(board, GridN, WinK) : RowMajorBefore(lastResult.line, other)

\* C3 (amended): of several winning runs checkWinner reports the first in
\* direction order and, within a direction, the one whose starting cell is in
\* the topmost row, taken left to right for rows, columns and down-right
\* diagonals and right to left for down-left diagonals.
C3_ScanOrderFirst ==
  (Evaluated /\ lastResult.winner \in Marks) =>
    \A other \in WinningRuns(board, GridN, WinK) : ScanBefore(lastResult.line, other)

\* two winning down-left diagonals starting in the same row, the right one reported
C3_Witness ==
  /\ Evaluated
  /\ lastResult.winner \in Marks
  /\ DirRank(lastResult.line) = 3
  /\ \E other \in WinningRuns(board, GridN, WinK) :
       /\ DirRank(other) = 3
       /\ other[1][1] = lastResult.line[1][1]
       /\ other[1][2] < lastResult.line[1][2]

(***************************************************************************)
(* Properties of a round on the board (Spec)                               *)
(***************************************************************************)
\* the state after a tap on cell and the renders it causes
Tapped(cell) == AfterHandler(Cur, handleCellTap(Cur, cell[1], cell[2]))

\* the cells of the mounted board
BoardCells == Cells(BoardSize(board))

\* a tap the claim calls invalid: the cell is occupied or the round is over
InvalidTap(cell) == gameOver \/ At(board, cell) # Null

\* C4: a tap on an occupied cell, or any tap once the round is won or tied,
\* changes neither the board, the player to move, gameOver, the winning line,
\* the score nor the round counter and queues no onGameWon / onGameTie
\* callback; and while the round is over the board changes only by being reset
\* to the empty board of a new round.
C4_InvalidTapIgnored ==
  /\ [](\A cell \in BoardCells :
          (~showMatchComplete /\ InvalidTap(cell)) =>
            /\ Tapped(cell).board = board
            /\ Tapped(cell).currentPlayerState = currentPlayerState
            /\ Tapped(cell).gameOver = gameOver
            /\ Tapped(cell).winningLine = winningLine
            /\ Tapped(cell).score = score
            /\ Tapped(cell).currentRound = currentRound
            /\ Tapped(cell).timeouts = timeouts)
  /\ [][(gameOver /\ board' # board) =>
          (board' = EmptyBoard(BoardSize(board')) /\ ~gameOver')]_vars

\* a round that is over with empty cells left, and an occupied cell next to them
C4_Witness ==
  /\ gameOver
  /\ ~showMatchComplete
  /\ lastResult.winner \in Marks
  /\ \E cell \in BoardCells : At(board, cell) = Null
  /\ \E cell \in BoardCells : At(board, cell) # Null /\ At(board, cell) # currentPlayerState

\* the step places one mark on an empty cell and changes no other cell
PlacesMark(cell) ==
  /\ BoardSize(board') = BoardSize(board)
  /\ At(board, cell) = Null
  /\ At(board', cell) # Null
  /\ \A other \in BoardCells \ {cell} : At(board', other) = At(board, other)

OtherMark(m) == IF m = "X" THEN "O" ELSE "X"

\* C5: every accepted move sets one empty cell to the mover's symbol; a move
\* that does not end the round passes the turn to the other player and a move
\* that ends it does not; and on every board the marks of the two players are
\* equal in number or the first mover has exactly one more.
C5_StrictAlternation ==
  /\ [][\A cell \in BoardCells :
          PlacesMark(cell) =>
            /\ At(board', cell) = currentPlayerState
            /\ ~gameOver' => currentPlayerState' = OtherMark(currentPlayerState)
            /\ gameOver' => currentPlayerState' = currentPlayerState]_vars
  /\ [](\E first \in Marks :
          CountOf(board, first) - CountOf(board, OtherMark(first)) \in {0, 1})

\* player 1's configured symbol
Player1Symbol == OrElse(gameSettings.player1Symbol, "X")

\* player 2's configured symbol
Player2Symbol == OrElse(gameSettings.player2Symbol, "O")

\* C6: whenever a round starts (the board is empty) player 1's configured
\* symbol is the one to move, and every mark on the board is one of the two
\* configured symbols.
C6_Player1StartsWithConfiguredSymbols ==
  /\ (~showMatchComplete /\ Occupied(board) = {}) => currentPlayerState = Player1Symbol
  /\ \A cell \in Occupied(board) : At(board, cell) \in {Player1Symbol, Player2Symbol}

(***************************************************************************)
(* Properties of the match (Spec)                                          *)
(***************************************************************************)
\* the step ends a round: handleGameWon / handleGameTie queued its callback
RoundEnds == Len(timeouts') = Len(timeouts) + 1

\* the callback queued by the step
Queued == timeouts'[Len(timeouts')]

\* the step runs the oldest pending callback
CallbackRuns == timeouts # <<>> /\ timeouts' = Tail(timeouts)

\* the round whose callback runs: its number, its settings, the round-win
\* counts before it (score) and after it (updatedScore)
Ended == Head(timeouts)

\* wins reaches ceil(maxRounds / 2)
AtThreshold(wins, maxRounds) == 2 * wins >= maxRounds

\* the callback a round's end queues holds the round as it ended: the counts
\* after the round are the score, the number and the settings are the current
\* ones, and the round counter has not moved
RoundRecorded ==
  RoundEnds =>
    /\ Queued.updatedScore = score'
    /\ Queued.score = score
    /\ Queued.currentRound = currentRound
    /\ Queued.settings = gameSettings
    /\ currentRound' = currentRound
    /\ Queued.kind = "won" <=>
         (score'.player1 + score'.player2 = score.player1 + score.player2 + 1
            /\ score'.ties = score.ties)
    /\ Queued.kind = "tie" <=>
         (score'.ties = score.ties + 1 /\ score'.player1 = score.player1
            /\ score'.player2 = score.player2)

\* neither player had reached the threshold when the round started
Undecided(c) ==
  /\ ~AtThreshold(c.score.player1, c.settings.maxRounds)
  /\ ~AtThreshold(c.score.player2, c.settings.maxRounds)

\* C7: when a round win of a match that is still undecided brings a player's
\* round-win count to ceil(maxRounds / 2), the callback of that round
\* completes the match with that player's symbol as matchWinner, whatever the
\* round number, and leaves the round counter as it is.
C7_ThresholdEndsMatch ==
  [][/\ RoundRecorded
     /\ (CallbackRuns /\ Ended.kind = "won" /\ Undecided(Ended)) =>
          /\ AtThreshold(Ended.updatedScore.player1, Ended.settings.maxRounds) =>
               /\ showMatchComplete'
               /\ matchWinner' = OrElse(Ended.settings.player1Symbol, "X")
               /\ currentRound' = currentRound
          /\ AtThreshold(Ended.updatedScore.player2, Ended.settings.maxRounds) =>
               /\ showMatchComplete'
               /\ matchWinner' = OrElse(Ended.settings.player2Symbol, "O")
               /\ currentRound' = currentRound]_vars

\* a match of five rounds ended in its third round by the third win of player 1
C7_Witness ==
  /\ showMatchComplete
  /\ gameSettings.maxRounds = 5
  /\ currentRound = 3
  /\ score = [player1 |-> 3, player2 |-> 0, ties |-> 0]
  /\ matchWinner = Player1Symbol
  /\ timeouts = <<>>

\* a match of ten rounds ended before its last round by the fifth win of player 2
C7_WitnessPlayer2 ==
  /\ showMatchComplete
  /\ gameSettings.maxRounds = 10
  /\ currentRound < 10
  /\ score.player2 = 5
  /\ matchWinner = Player2Symbol
  /\ timeouts = <<>>

\* C8: when the round numbered maxRounds ends, by a win or by a tie, and
\* neither player has ceil(maxRounds / 2) wins, the callback of that round
\* completes the match, with the player holding strictly more round wins as
\* matchWinner and with no winner when the counts are equal.
C8_LastRoundEndsMatch ==
  [][/\ RoundRecorded
     /\ (/\ CallbackRuns
         /\ Ended.currentRound = Ended.settings.maxRounds
         /\ ~AtThreshold(Ended.updatedScore.player1, Ended.settings.maxRounds)
         /\ ~AtThreshold(Ended.updatedScore.player2, Ended.settings.maxRounds)) =>
          /\ showMatchComplete'
          /\ Ended.updatedScore.player1 > Ended.updatedScore.player2 =>
               matchWinner' = OrElse(Ended.settings.player1Symbol, "X")
          /\ Ended.updatedScore.player2 > Ended.updatedScore.player1 =>
               matchWinner' = OrElse(Ended.settings.player2Symbol, "O")
          /\ Ended.updatedScore.player1 = Ended.updatedScore.player2 =>
               matchWinner' = Null]_vars

\* a one-round match whose only round was tied, complete without a winner
C8_Witness ==
  /\ showMatchComplete
  /\ gameSettings.maxRounds = 1
  /\ score = [player1 |-> 0, player2 |-> 0, ties |-> 1]
  /\ matchWinner = Null
  /\ timeouts = <<>>

\* a last round reached below the threshold and decided by the higher count
C8_WitnessHigherCount ==
  /\ showMatchComplete
  /\ currentRound = gameSettings.maxRounds
  /\ ~AtThreshold(score.player1, gameSettings.maxRounds)
  /\ score.player1 > score.player2
  /\ matchWinner = Player1Symbol
  /\ timeouts = <<>>

\* the callback c ends the match
Deciding(c) ==
  \/ /\ c.kind = "won"
     /\ \/ AtThreshold(c.updatedScore.player1, c.settings.maxRounds)
        \/ AtThreshold(c.updatedScore.player2, c.settings.maxRounds)
  \/ c.currentRound >= c.settings.maxRounds

\* the deciding round of the match has been played
MatchDecided ==
  showMatchComplete \/ \E i \in 1..Len(timeouts) : Deciding(timeouts[i])

\* the step is the New Match button
IsResetMatch == showMatchComplete /\ ~showMatchComplete'

\* C9: from the move that ends the deciding round until resetMatch, no cell of
\* the board receives a mark, score and currentRound stay as they are and a
\* matchWinner that is set stays the same; resetMatch leaves round 1, a zero
\* score, no match winner, timer 0 and the timer inactive.
C9_MatchEndTerminal ==
  [][/\ (MatchDecided /\ ~IsResetMatch) =>
          /\ \A cell \in BoardCells : ~PlacesMark(cell)
          /\ score' = score
          /\ currentRound' = currentRound
          /\ (showMatchComplete /\ Truthy(matchWinner)) => matchWinner' = matchWinner
     /\ IsResetMatch =>
          /\ currentRound' = 1
          /\ score' = ZeroScore
          /\ matchWinner' = Null
          /\ timer' = 0
          /\ ~timerActive']_vars

\* seq without its i-th element
Without(seq, i) == SubSeq(seq, 1, i - 1) \o SubSeq(seq, i + 1, Len(seq))

\* C10: a leaderboard entry is added only on completion of a match with
\* enableTimer on and a definitive winner; a match whose final counts are
\* equal adds none, and the entry names the player whose final count is
\* strictly higher.
C10_EntryOnlyForWinner ==
  [][Len(leaderboard') > Len(leaderboard) =>
       /\ showMatchComplete'
       /\ gameSettings'.enableTimer
       /\ Truthy(matchWinner')
       /\ score'.player1 # score'.player2
       /\ \E i \in 1..Len(leaderboard') :
            /\ Without(leaderboard', i) = leaderboard
            /\ leaderboard'[i].player = IF score'.player1 > score'.player2
                                        THEN "Player 1" ELSE "Player 2"]_vars

(***************************************************************************)
(* Properties of the leaderboard (Spec)                                    *)
(***************************************************************************)
\* the step completes the match
MatchCompletes == ~showMatchComplete /\ showMatchComplete'

\* C11: every match that completes with a definitive winner while enableTimer
\* is on adds a leaderboard entry carrying that winner's symbol (storage
\* operations succeed; the leaderboard is below its cap).
C11_WinnerGetsEntry ==
  [][(/\ MatchCompletes
      /\ Truthy(matchWinner')
      /\ gameSettings'.enableTimer
      /\ Len(leaderboard) < TopEntries) =>
       \E i \in 1..Len(leaderboard') :
         /\ Without(leaderboard', i) = leaderboard
         /\ leaderboard'[i].symbol = matchWinner']_vars

\* the last n records of rounds won by the player labelled label: since the
\* score was reset when the match began, the rounds that player won in the
\* match whose score shows n wins
WonRounds(records, label, n) ==
  LET mine == SelectSeq(records, LAMBDA r : r.player = label)
  IN SubSeq(mine, Len(mine) - Min(n, Len(mine)) + 1, Len(mine))

WinsOf(label, sc) == IF label = "Player 1" THEN sc.player1 ELSE sc.player2

\* C12: the time of the entry that a completed match adds to the leaderboard
\* for a player who won rounds in it is the mean of the times of exactly those
\* rounds: no record of an earlier or discarded match is counted
C12_EntryTimeIsMatchMean ==
  [][(MatchCompletes /\ Len(leaderboard') > Len(leaderboard)) =>
       \E i \in 1..Len(leaderboard') :
         /\ Without(leaderboard', i) = leaderboard
         /\ LET e == leaderboard'[i]
                won == WonRounds(roundsData, e.player, WinsOf(e.player, score'))
            IN WinsOf(e.player, score') > 0 =>
                 e.time = Average(SumTimes(won), Len(won))]_vars

\* a new match begins: the round counter returns to 1 and the score to zero
\* after a match was under way or complete
MatchBegins ==
  /\ currentRound # 1 \/ score # ZeroScore \/ showMatchComplete
  /\ currentRound' = 1
  /\ score' = ZeroScore
  /\ ~showMatchComplete'

\* C13: whenever a new match begins after a match was completed, reset or
\* discarded, roundsData holds no record
C13_RoundsDataClearedAtBoundary == [][MatchBegins => roundsData' = <<>>]_vars

\* ascending by time
Sorted(lb) == \A i \in 1..(Len(lb) - 1) : TimeLeq(lb[i].time, lb[i + 1].time)

\* how many entries of lb have the time t
CountTime(lb, t) == Cardinality({i \in 1..Len(lb) : lb[i].time = t})

\* a finalization: the round records are consumed or the leaderboard changes,
\* and the leaderboard is not cleared
Finalizes ==
  /\ (roundsData # <<>> /\ roundsData' = <<>>) \/ leaderboard' # leaderboard
  /\ leaderboard' # <<>>

C15_StoredWinLengthFits ==
  storedSettings # NoSettings =>
    /\ storedSettings.gridSize \in 3..6
    /\ storedSettings.winLength \in 3..storedSettings.gridSize

SymbolsDiffer(st) == st.player1Symbol # st.player2Symbol

\* C16: the two symbols differ in the settings shown, in the stored settings
\* and in every record whose save is pending: a selection of the symbol the
\* other player holds hands nothing to saveSettings, also while earlier saves
\* are pending
C16_SymbolsDiffer ==
  /\ SymbolsDiffer(settings)
  /\ storedSettings # NoSettings => SymbolsDiffer(storedSettings)
  /\ \A newSettings \in pendingSaves : SymbolsDiffer(newSettings)

\* player 1 holds a symbol that a pending save gives to player 2, and a second
\* save is pending
C16_Witness ==
  /\ Cardinality(pendingSaves) = MaxSaves
  /\ \E newSettings \in pendingSaves : newSettings.player2Symbol = settings.player1Symbol
  /\ storedSettings # NoSettings
  /\ storedSettings.player1Symbol = "S"

(***************************************************************************)
(* Properties of the game screen under focus changes (SpecFocus)           *)
(***************************************************************************)
\* the settings whose change during a round is put to the user
CriticalOf(st) == <<st.gridSize, st.winLength, st.maxRounds>>

\* C17: after the first move of a round, gridSize, winLength and maxRounds of
\* the settings in use change only by the prompt's 'Reset Game', which starts
\* a new match with the prompted settings; a prompt closed without applying
\* its settings leaves settings, board, score, round counter and timer as they
\* are
C17_CriticalChangeOnlyByReset ==
  /\ [][(gameStarted /\ CriticalOf(gameSettings') # CriticalOf(gameSettings)) =>
          /\ prompt # NoSettings
          /\ gameSettings' = prompt
          /\ currentRound' = 1
          /\ score' = ZeroScore]_vars
  /\ [][(prompt # NoSettings /\ prompt' = NoSettings
            /\ CriticalOf(gameSettings') = CriticalOf(gameSettings)) =>
          UNCHANGED <<gameSettings, board, score, currentRound, timer>>]_vars

(***************************************************************************)
(* Properties of the round timer (Spec, SpecFocus)                         *)
(***************************************************************************)
\* C18: never more than one interval is alive, and one is alive exactly while
\* timerActive; the first move of a round played with the timer starts it,
\* the elapsed counter advances only while timerActive, and the end of a round
\* stops it
C18_OneTickSource ==
  /\ [](intervals <= 1 /\ (intervals = 1 <=> timerActive))
  /\ [][(~gameStarted /\ gameStarted' /\ gameSettings.enableTimer) =>
          (timerActive' /\ intervals' = 1)]_vars
  /\ [][timer' > timer => (timerActive /\ timer' = timer + 1)]_vars
  /\ [][RoundEnds => (~timerActive' /\ intervals' = 0)]_vars

\* the timer of a second round runs: the interval of the first round was
\* cancelled and a new one was created
C18_Witness ==
  /\ currentRound = 2
  /\ gameStarted
  /\ ~gameOver
  /\ intervals = 1
  /\ timer = 1
  /\ roundsData # <<>>

\* C19: while the game screen is not focused no interval is alive and the
\* elapsed counter does not advance
C19_BlurStopsTimer ==
  /\ [](~focused => intervals = 0)
  /\ [][~focused => ~(timer' > timer)]_vars

(***************************************************************************)
(* Properties of a settling save (SpecSettings)                            *)
(***************************************************************************)
\* C20: when a pending save of the settings screen settles, by success or by
\* failure, the settings shown are the record that was handed to the save
C20_FailedSaveKeepsMemory ==
  [][\A newSettings \in pendingSaves :
       pendingSaves' = pendingSaves \ {newSettings} => settings' = newSettings]_vars

(***************************************************************************)
(* Properties of the round counter and of the score                        *)
(***************************************************************************)
\* C21: the round counter is at least 1 and at most maxRounds of the settings
\* in use, and the callback of a finished round that does not end the match
\* advances it by exactly one
C21_RoundCounterBounded ==
  /\ [](currentRound >= 1 /\ currentRound <= gameSettings.maxRounds)
  /\ [][(CallbackRuns /\ ~showMatchComplete') => currentRound' = currentRound + 1]_vars

\* the score sc2 is sc with the one count named field raised by one
Raised(sc, sc2, field) == sc2 = [sc EXCEPT ![field] = @ + 1]

\* C22: the end of a round raises exactly one of the three counts of the score
\* by one, a tie the count of ties; any other change of the score is a reset
\* to zero by resetMatch or by the prompt's 'Reset Game', never by Play Again
C22_ScoreCountsRounds ==
  /\ [][RoundEnds =>
          /\ \E field \in {"player1", "player2", "ties"} : Raised(score, score', field)
          /\ Queued.kind = "tie" => Raised(score, score', "ties")]_vars
  /\ [][(score' # score /\ ~RoundEnds) =>
          /\ score' = ZeroScore
          /\ showMatchComplete \/ prompt # NoSettings]_vars

\* one round won by each player and one round tied, a Play Again after each
C22_Witness ==
  /\ score = [player1 |-> 1, player2 |-> 1, ties |-> 1]
  /\ currentRound = 4
  /\ ~gameOver
  /\ ~gameStarted

\* more than maxRounds / 2 round wins
Majority(wins, maxRounds) == 2 * wins > maxRounds

\* C23: when the callback of a round before the last one completes the match,
\* one player has won more than half of maxRounds rounds
C23_EarlyEndNeedsMajority ==
  [][(CallbackRuns /\ MatchCompletes /\ Ended.currentRound < Ended.settings.maxRounds) =>
       \/ Majority(Ended.updatedScore.player1, Ended.settings.maxRounds)
       \/ Majority(Ended.updatedScore.player2, Ended.settings.maxRounds)]_vars

(***************************************************************************)
(* Properties of a round's outcome                                         *)
(***************************************************************************)
\* C24: on every board reached by taps, a round is reported won by a symbol
\* only if that symbol occupies at least winLength cells, nothing is reported
\* on the empty board, and no round is over before its (2 * winLength - 1)-th
\* move
C24_NoEarlyOutcome ==
  /\ lastResult.winner \in Marks =>
       CountOf(board, lastResult.winner) >= gameSettings.winLength
  /\ Occupied(board) = {} => (~gameOver /\ lastResult.winner \notin Marks \cup {"tie"})
  /\ gameOver => Cardinality(Occupied(board)) >= 2 * gameSettings.winLength - 1

\* the winning line recorded by the step is a run of k cells of the n x n
\* board that all hold mark m
LineOf(m, n, k) ==
  /\ Len(winningLine') = k
  /\ winningLine' \in Runs(n, k)
  /\ \A i \in 1..k : At(board', winningLine'[i]) = m

\* C25: a move that completes a run of winLength marks calls onGameWon once
\* with the mover's symbol and records a line of winLength cells; a move that
\* fills the board without a run calls onGameTie once; no other move and no
\* other event calls either
C25_OutcomeReportedOnce ==
  /\ [][\A cell \in BoardCells :
          PlacesMark(cell) =>
            LET n == gameSettings.gridSize
                k == gameSettings.winLength
            IN IF WinningRuns(board', n, k) # {}
               THEN /\ RoundEnds
                    /\ Queued.kind = "won"
                    /\ lastResult'.winner = currentPlayerState
                    /\ LineOf(currentPlayerState, n, k)
                    /\ gameSettings.enableTimer =>
                         roundsData'[Len(roundsData')].symbol = currentPlayerState
                    /\ gameOver'
               ELSE IF isBoardFull(board')
               THEN RoundEnds /\ Queued.kind = "tie" /\ gameOver'
               ELSE ~RoundEnds /\ ~gameOver']_vars
  /\ [][RoundEnds => (~gameOver /\ \E cell \in BoardCells : PlacesMark(cell))]_vars

\* X:(0,0), O:(1,1), X:(0,1), O:(1,2), X:(0,2) on 3x3 with winLength 3
C25_Witness ==
  /\ gameOver
  /\ lastResult.winner = "X"
  /\ winningLine = << <<0, 0>>, <<0, 1>>, <<0, 2>> >>
  /\ Occupied(board) = {<<0, 0>>, <<0, 1>>, <<0, 2>>, <<1, 1>>, <<1, 2>>}
  /\ At(board, <<1, 1>>) = "O"
  /\ At(board, <<1, 2>>) = "O"
  /\ timeouts # <<>>

\* a diagonal of winLength marks completed by the second mover
C25_WitnessDiagonal ==
  /\ gameOver
  /\ lastResult.winner = "O"
  /\ winningLine = << <<0, 2>>, <<1, 1>>, <<2, 0>> >>

\* a full board without a run, reported as a tie
C25_WitnessTie ==
  /\ gameOver
  /\ lastResult.winner = "tie"
  /\ isBoardFull(board)
  /\ score.ties = 1

(***************************************************************************)
(* Properties of TicTacToeScreen (SpecTicTacToe)                           *)
(***************************************************************************)
\* the rounds of the match that have ended
RoundsPlayed(sc) == sc.player1 + sc.player2 + sc.ties

\* C26: for maxRounds in {3, 5, 7, 10}, TicTacToeScreen declares a match
\* complete only when a player has ceil(maxRounds / 2) round wins or when
\* maxRounds rounds have been played; after each of the rounds
\* 1..maxRounds-1 without such a player the match stays in progress
C26_NoEarlyExhaustion ==
  [][(~showMatchComplete /\ showMatchComplete' /\ gameSettings'.maxRounds \in {3, 5, 7, 10})
       => \/ score'.player1 >= roundsNeededToWin(gameSettings'.maxRounds)
          \/ score'.player2 >= roundsNeededToWin(gameSettings'.maxRounds)
          \/ RoundsPlayed(score') >= gameSettings'.maxRounds]_vars

\* C27: once TicTacToeScreen shows a match as complete, no later event adds a
\* leaderboard entry until resetMatch has started the next match: a completed
\* match has at most one entry
C27_OneEntryPerMatch ==
  [][(showMatchComplete /\ showMatchComplete') => leaderboard' = leaderboard]_vars

(***************************************************************************)
(* Properties of the settings-changed prompt (SpecRounds, SpecFocus)       *)
(***************************************************************************)
\* the step is the 'Reset Game' button of the settings-changed prompt
IsPromptReset ==
  prompt # NoSettings /\ Cur' = AfterHandler(Cur, promptResetGameReset(Cur))

\* C28: 'Reset Game' in the settings-changed prompt of GameScreen starts the
\* new match in the initial state, whichever of gridSize, winLength and
\* maxRounds was changed: round 1, score 0-0-0, timer 0, an empty board with
\* no round in progress, so that the next tap is a first move
C28_PromptResetStartsFresh ==
  [][IsPromptReset
       => /\ currentRound' = 1
          /\ score' = ZeroScore
          /\ timer' = 0
          /\ Occupied(board') = {}
          /\ ~gameOver'
          /\ ~gbGameStarted']_vars

(***************************************************************************)
(* Properties of the turn display and of the score (Spec)                  *)
(***************************************************************************)
\* C29: whenever a move can be made in GameScreen, the current-turn value
\* handed to the score board, gameSettings.currentPlayer, is the symbol
\* GameBoard places on the next accepted tap, currentPlayerState
C29_TurnShownIsTurnPlayed ==
  (~showMatchComplete /\ ~gameOver /\ prompt = NoSettings)
    => gameSettings.currentPlayer = currentPlayerState

\* the step is a winning move made by the player who placed the first mark of
\* the round (player 1): their mark is on more cells than the other mark
FirstMoverWins ==
  /\ RoundEnds
  /\ lastResult'.winner \in Marks
  /\ CountOf(board', lastResult'.winner) > CountOf(board', OtherMark(lastResult'.winner))

\* the step is a winning move made by the player who moves second (player 2)
SecondMoverWins ==
  /\ RoundEnds
  /\ lastResult'.winner \in Marks
  /\ CountOf(board', lastResult'.winner) <= CountOf(board', OtherMark(lastResult'.winner))

\* C30: for every pair of distinct configured symbols a round win is credited
\* to the player who made the winning move: score.player1 is raised exactly
\* when the first mover completed the line, score.player2 exactly when the
\* second mover did
C30_WinCreditedToMover ==
  [][/\ FirstMoverWins <=> (RoundEnds /\ Raised(score, score', "player1"))
     /\ SecondMoverWins <=> (RoundEnds /\ Raised(score, score', "player2"))]_vars

====
